---- MODULE Spec2Model ----
(***************************************************************************)
(* Model of the CPU hotplug control loop of src/src/main.rs.               *)
(*                                                                         *)
(* The state is the in-memory SystemTopology (cpus), the part of sysfs the *)
(* program reads and writes (the per-CPU "online" control files), the      *)
(* watch channel between the signal task and the manager task, and the     *)
(* position of the three tasks (cpu_manager, signal_handler, main).        *)
(* Tasks interleave at their await points: every file write is one step.   *)
(*                                                                         *)
(* Utilization (c0_percentage, an f64 percentage in the program) is kept   *)
(* in tenths of a percent; idle times and intervals are in microseconds.   *)
(***************************************************************************)
EXTENDS Integers, Sequences, FiniteSets, TLC

VARIABLES
    cpus,         \* SystemTopology.cpus : id -> CpuInfo
    hwControl,    \* ids whose sysfs directory has an "online" file
    hwOnline,     \* id -> whether the CPU is online in hardware
    hwIdleTimes,  \* the cumulative idle times the cpuidle counters may show
    hwIntervals,  \* the times, in microseconds, that may pass between samples
    lastUpdateIdle, \* what the idle counters showed at the instant last_update
    mainPc,       \* position of main
    args,         \* Args: upper_threshold and lower_threshold
    rx,           \* value held by the watch channel
    flag,         \* signal_handler's local flag
    mgrPc,        \* position of the cpu_manager task
    mgrTodo,      \* ids online_all_cpus (called by cpu_manager) has not visited
    execGroup,    \* the group handed to the executor in this cycle
    execTodo,     \* the part of execGroup the executor did not visit
    execPre,      \* ids that were online in memory when the group was selected
    rejected,     \* ids whose write failed in this cycle
    decision,     \* branch taken by the decision rule in this cycle
    sigPc,        \* position of the signal_handler task
    sigTodo,      \* ids online_all_cpus (called by signal_handler) has not visited
    stopped       \* main returned: the process has exited

vars == << cpus, hwControl, hwOnline, hwIdleTimes, hwIntervals,
           lastUpdateIdle, mainPc, args, rx, flag, mgrPc, mgrTodo,
           execGroup, execTodo, execPre, rejected, decision,
           sigPc, sigTodo, stopped >>

---------------------------------------------------------------------------
(* Bounds and program constants *)

\* Highest CPU id enumerated under /sys/devices/system/cpu.
MaxCpu == 3

\* How many discovery-time irregularities (a missing "online" control, an
\* unreadable "online" file, a sibling list that does not parse) one
\* hardware configuration may have.
MaxQuirks == 1

\* Default thresholds of Args.
UpperThreshold == 85
LowerThreshold == 50

DefaultArgs == [ upper_threshold |-> UpperThreshold,
                 lower_threshold |-> LowerThreshold ]

\* c0_percentage is kept in units of 1/C0Scale percent.
C0Scale == 10

Cpus == 0..MaxCpu
NonBoot == Cpus \ {0}

---------------------------------------------------------------------------
(* Sequences and sets *)

Range(s) == { s[i] : i \in 1..Len(s) }

Min(S) == CHOOSE x \in S : \A y \in S : x <= y
Max(S) == CHOOSE x \in S : \A y \in S : x >= y

RECURSIVE SortedSeq(_)
SortedSeq(S) == IF S = {} THEN << >>
                ELSE << Min(S) >> \o SortedSeq(S \ {Min(S)})

RECURSIVE Sum(_, _)
Sum(f, S) == IF S = {} THEN 0
             ELSE LET x == CHOOSE y \in S : TRUE
                  IN f[x] + Sum(f, S \ {x})

---------------------------------------------------------------------------
(* Hardware enumeration: what sysfs shows at discovery *)

\* The sibling relations the hardware can have: every way of grouping the
\* CPUs into cores. g[c] is the lowest id of c's core.
CoreMaps == { g \in [Cpus -> Cpus] :
                \A c \in Cpus : g[c] <= c /\ g[g[c]] = g[c] }

CoreOf(g, c) == { d \in Cpus : g[d] = g[c] }

\* Content of topology/thread_siblings_list as a list of the items that
\* stand between the commas. An item is one id (lo = hi) or a range lo-hi.
CommaList(S) == [ i \in 1..Cardinality(S) |->
                    [lo |-> SortedSeq(S)[i], hi |-> SortedSeq(S)[i]] ]

RECURSIVE RangeList(_)
RangeList(S) ==
    IF S = {} THEN << >>
    ELSE LET lo == Min(S)
             hi == Max({ h \in S : \A k \in lo..h : k \in S })
         IN << [lo |-> lo, hi |-> hi] >> \o RangeList(S \ (lo..hi))

SiblingFormats == { "comma", "ranges", "unreadable" }

SiblingFile(fmt, S) ==
    CASE fmt = "comma"      -> [readable |-> TRUE,  items |-> CommaList(S)]
      [] fmt = "ranges"     -> [readable |-> TRUE,  items |-> RangeList(S)]
      [] fmt = "unreadable" -> [readable |-> FALSE, items |-> << >>]

\* n.trim().parse::<usize>().ok(): an item parses when it is a single id.
ParsesAsId(item) == item.lo = item.hi

ItemIds(items) == [ i \in 1..Len(items) |-> items[i].lo ]

read_thread_siblings(file) ==
    IF file.readable THEN ItemIds(SelectSeq(file.items, ParsesAsId))
    ELSE << >>

\* present: the CPU directory has an "online" file; readOk: reading it
\* succeeded; content: TRUE when the file holds "1".
is_cpu_online(present, readOk, content) ==
    IF present THEN (IF readOk THEN content ELSE FALSE)
    ELSE TRUE

process_cpu(id, file, present, readOk, content) ==
    [ thread_siblings      |-> read_thread_siblings(file),
      c0_percentage        |-> 0,
      online               |-> is_cpu_online(present, readOk, content),
      last_total_idle_time |-> 0 ]

---------------------------------------------------------------------------
(* Accessors on the in-memory topology *)

OnlineIds(t)  == { c \in DOMAIN t : t[c].online }
OfflineIds(t) == { c \in DOMAIN t : ~t[c].online }

\* Every CPU lists itself, and listing is mutual.
SymmetricSiblings(t) ==
    \A a \in DOMAIN t :
        /\ a \in Range(t[a].thread_siblings)
        /\ \A b \in Range(t[a].thread_siblings) :
              b \in DOMAIN t /\ a \in Range(t[b].thread_siblings)

---------------------------------------------------------------------------
(* Load estimator *)

\* Length of one cycle: the sleep at the end of cpu_manager's loop, in
\* microseconds.
IntervalMicros == 1000000

\* SaturatingSub as the distance between the two readings.
SaturatingSub_AbsDiff(a, b) == IF a >= b THEN a - b ELSE b - a

SaturatingSub(a, b) == IF a >= b THEN a - b ELSE 0

Clamp(x, lo, hi) == IF x < lo THEN lo ELSE IF x > hi THEN hi ELSE x

\* 100.0 * (1.0 - delta / interval), clamped to [0, 100], in 1/C0Scale percent.
C0Percentage(delta, interval) ==
    Clamp(100 * C0Scale - (100 * C0Scale * delta) \div interval,
          0, 100 * C0Scale)

\* total_idle_time is the sum of the cpuidle "time" files just read.
update_c0_single(cpu, total_idle_time, actual_interval) ==
    LET idle_time_delta ==
            SaturatingSub(total_idle_time, cpu.last_total_idle_time)
    IN [cpu EXCEPT !.last_total_idle_time = total_idle_time,
                   !.c0_percentage = C0Percentage(idle_time_delta,
                                                  actual_interval)]

\* SampleCpus without the `if cpu.online`.
SampleCpus_OfflineToo(t, visited, idle, actual_interval) ==
    [ c \in DOMAIN t |->
        IF c \in visited
        THEN update_c0_single(t[c], idle[c], actual_interval)
        ELSE t[c] ]

\* The loop of update_c0_percentages over the CPUs in `visited`; on success
\* visited is every CPU of the topology.
SampleCpus(t, visited, idle, actual_interval) ==
    [ c \in DOMAIN t |->
        IF c \in visited /\ t[c].online
        THEN update_c0_single(t[c], idle[c], actual_interval)
        ELSE t[c] ]

update_c0_percentages(t, idle, actual_interval) ==
    SampleCpus(t, DOMAIN t, idle, actual_interval)

---------------------------------------------------------------------------
(* Decision engine *)

C0Of(t) == [ c \in DOMAIN t |-> t[c].c0_percentage ]

total_c0(t)     == Sum(C0Of(t), OnlineIds(t))
online_count(t) == Cardinality(OnlineIds(t))

\* avg_c0 = total_c0 / online_count (0.0 when nothing is online) compared
\* with a threshold given in percent. The quotient is not formed: both
\* sides are multiplied by online_count, which decides the same comparison.
\* AvgAbove with >= in place of >.
AvgAbove_Inclusive(t, percent) ==
    IF online_count(t) > 0
    THEN total_c0(t) >= percent * C0Scale * online_count(t)
    ELSE 0 >= percent

AvgAbove(t, percent) ==
    IF online_count(t) > 0
    THEN total_c0(t) > percent * C0Scale * online_count(t)
    ELSE 0 > percent

AvgBelow(t, percent) ==
    IF online_count(t) > 0
    THEN total_c0(t) < percent * C0Scale * online_count(t)
    ELSE 0 < percent

None == [some |-> FALSE, ids |-> << >>]
Some(ids) == [some |-> TRUE, ids |-> ids]

\* OnlineSiblings without the filter: the sibling list as discovered.
OnlineSiblings_Unfiltered(t, c) == t[c].thread_siblings

\* siblings.iter().filter(|id| cpus.get(id).map_or(false, |s| s.online))
OnlineSiblings(t, c) ==
    LET keep(id) == id \in DOMAIN t /\ t[id].online
    IN SelectSeq(t[c].thread_siblings, keep)

OfflineSiblings(t, c) ==
    LET keep(id) == id \in DOMAIN t /\ ~t[id].online
    IN SelectSeq(t[c].thread_siblings, keep)

\* select_cpu_to_offline without the early return for a single candidate.
select_cpu_to_offline_NoFloor(t) ==
    LET online_cpus == OnlineIds(t) \ {0}
    IN IF online_cpus = {} THEN None
       ELSE Some(OnlineSiblings(t, Max(online_cpus)))

\* select_cpu_to_offline returning every online non-boot CPU.
select_cpu_to_offline_Everything(t) ==
    LET online_cpus == OnlineIds(t) \ {0}
    IN IF Cardinality(online_cpus) <= 1 THEN None
       ELSE Some(SortedSeq(online_cpus))

\* select_cpu_to_offline picking the lowest id.
select_cpu_to_offline_LowestId(t) ==
    LET online_cpus == OnlineIds(t) \ {0}
    IN IF Cardinality(online_cpus) <= 1 THEN None
       ELSE Some(OnlineSiblings(t, Min(online_cpus)))

select_cpu_to_offline(t) ==
    LET online_cpus == OnlineIds(t) \ {0}
    IN IF Cardinality(online_cpus) <= 1 THEN None
       ELSE Some(OnlineSiblings(t, Max(online_cpus)))

\* select_cpu_to_online picking the highest id.
select_cpu_to_online_HighestId(t) ==
    LET offline_cpus == OfflineIds(t) \ {0}
    IN IF offline_cpus = {} THEN None
       ELSE Some(OfflineSiblings(t, Max(offline_cpus)))

select_cpu_to_online(t) ==
    LET offline_cpus == OfflineIds(t) \ {0}
    IN IF offline_cpus = {} THEN None
       ELSE Some(OfflineSiblings(t, Min(offline_cpus)))

\* The if / else if / else at the end of cpu_manager's loop: the branch
\* taken and the group handed to the executor.
Decide(t, upper_threshold, lower_threshold) ==
    IF AvgAbove(t, upper_threshold)
    THEN LET sel == select_cpu_to_online(t)
         IN IF sel.some THEN [branch |-> "online", group |-> sel.ids]
            ELSE [branch |-> "at_maximum", group |-> << >>]
    ELSE IF AvgBelow(t, lower_threshold)
    THEN LET sel == select_cpu_to_offline(t)
         IN IF sel.some THEN [branch |-> "offline", group |-> sel.ids]
            ELSE [branch |-> "at_minimum", group |-> << >>]
    ELSE [branch |-> "optimal", group |-> << >>]

---------------------------------------------------------------------------
(* Initial states: main has run online_all_cpus and SystemTopology::new, *)
(* and is about to spawn the two tasks.                                   *)

\* Cumulative idle times the counters show in the whole-program
\* specification: with IntervalMicros between samples they give a busy
\* CPU (delta 0) and a mostly idle one (delta 600000).
IdleTimes == { 0, 600000 }

\* The startup online_all_cpus succeeded, so every non-boot CPU is online in
\* hardware. CPU 0 may have no "online" control, or have one and be online
\* or offline (the program then runs on another CPU).
Discovered(g, fmt, control, readFail, cpu0On) ==
    [ c \in Cpus |->
        process_cpu(c, SiblingFile(fmt, CoreOf(g, c)), c \in control,
                    c \notin readFail, IF c = 0 THEN cpu0On ELSE TRUE) ]

InitHardware ==
    \E g \in CoreMaps, fmt \in SiblingFormats, cpu0Off \in BOOLEAN :
    \E noControl \in SUBSET Cpus, readFail \in SUBSET Cpus :
        /\ readFail \cap noControl = {}
        /\ (0 \in noControl => ~cpu0Off)
        /\ Cardinality(noControl \ {0}) + Cardinality(readFail)
             + (IF fmt = "comma" THEN 0 ELSE 1) <= MaxQuirks
        /\ hwControl = Cpus \ noControl
        /\ hwOnline = [ c \in Cpus |-> IF c = 0 THEN ~cpu0Off ELSE TRUE ]
        /\ cpus = Discovered(g, fmt, Cpus \ noControl, readFail, ~cpu0Off)

\* main has spawned the two tasks and waits in tokio::select!. The watch
\* channel holds false; cpu_manager is at `pc`.
InitTasks(pc) ==
    /\ mainPc = "select"
    /\ rx = FALSE
    /\ flag = FALSE
    /\ mgrPc = pc
    /\ mgrTodo = {}
    /\ execGroup = << >>
    /\ execTodo = << >>
    /\ execPre = {}
    /\ rejected = {}
    /\ decision = "none"
    /\ sigPc = "wait"
    /\ sigTodo = {}
    /\ stopped = FALSE

Init ==
    /\ InitHardware
    /\ hwIdleTimes = IdleTimes
    /\ hwIntervals = { IntervalMicros }
    /\ lastUpdateIdle \in IdleTimes
    /\ args = DefaultArgs
    /\ InitTasks("top")

---------------------------------------------------------------------------
(* cpu_manager *)

\* What no task changes once main has spawned the tasks.
hwVars   == << hwControl, hwIdleTimes, hwIntervals, mainPc, args >>

\* cpu_manager returned an error; signal_handler returned or panicked.
MgrEnded == mgrPc \in { "sample_error", "online_all_error" }
SigEnded == sigPc \in { "done", "online_all_panic", "send_panic" }
sigVars  == << rx, flag, sigPc, sigTodo >>
execVars == << execGroup, execTodo, execPre, rejected, decision >>

\* topology.update_c0_percentages().await succeeds. The rx check before it
\* was false (at the top of the loop, or in the wait loop after a pause).
MgrSample ==
    /\ ~stopped
    /\ mgrPc \in { "top", "paused" }
    /\ ~rx
    /\ \E idle \in hwIdleTimes, actual_interval \in hwIntervals :
         /\ cpus' = update_c0_percentages(cpus, [c \in Cpus |-> idle],
                                          actual_interval)
         /\ lastUpdateIdle' = idle
    /\ mgrPc' = "sampled"
    /\ UNCHANGED << hwVars, hwOnline, sigVars, mgrTodo, execVars, stopped >>

\* The average, the comparison with the thresholds and the selection.
MgrDecide ==
    /\ ~stopped
    /\ mgrPc = "sampled"
    /\ LET d == Decide(cpus, args.upper_threshold, args.lower_threshold)
       IN /\ decision' = d.branch
          /\ execGroup' = d.group
          /\ execTodo' = d.group
          /\ mgrPc' = IF d.group = << >> THEN "sleep" ELSE "exec"
    /\ execPre' = OnlineIds(cpus)
    /\ rejected' = {}
    /\ UNCHANGED << cpus, lastUpdateIdle, hwVars, hwOnline, sigVars, mgrTodo, stopped >>

\* update_c0_single fails for one online CPU (a "time" file that cannot be
\* read or parsed): the `?` in update_c0_percentages and the one in
\* cpu_manager return the error, and the task ends. The CPUs the loop
\* visited before the failing one keep their new sample.
MgrSampleFails ==
    /\ ~stopped
    /\ mgrPc \in { "top", "paused" }
    /\ ~rx
    /\ \E idle \in hwIdleTimes, bad \in OnlineIds(cpus) :
       \E visited \in SUBSET (DOMAIN cpus \ {bad}),
          actual_interval \in hwIntervals :
         /\ cpus' = SampleCpus(cpus, visited, [c \in Cpus |-> idle],
                               actual_interval)
         /\ lastUpdateIdle' = idle
    /\ mgrPc' = "sample_error"
    /\ UNCHANGED << hwVars, hwOnline, sigVars, mgrTodo, execVars, stopped >>

\* The executor's write of "0" or "1" to an "online" file succeeds or not.
WriteOutcomes == BOOLEAN

\* ApplyToCpu with the in-memory flag set before the write's result is
\* looked at: a rejected write still flips the flag.
ApplyToCpu_FlagBeforeWrite(id, target) ==
    IF id = 0 \/ id \notin hwControl
    THEN /\ execTodo' = Tail(execTodo)
         /\ mgrPc' = IF Tail(execTodo) = << >> THEN "sleep" ELSE "exec"
         /\ UNCHANGED << cpus, hwOnline, rejected >>
    ELSE \E ok \in WriteOutcomes :
           /\ cpus' = IF id \in DOMAIN cpus
                      THEN [cpus EXCEPT ![id].online = target]
                      ELSE cpus
           /\ execTodo' = Tail(execTodo)
           /\ IF ok
              THEN /\ hwOnline' = [hwOnline EXCEPT ![id] = target]
                   /\ mgrPc' = IF Tail(execTodo) = << >> THEN "sleep"
                               ELSE "exec"
                   /\ UNCHANGED rejected
              ELSE /\ rejected' = rejected \cup {id}
                   /\ mgrPc' = "sleep"
                   /\ UNCHANGED hwOnline

\* ApplyToCpu without the path.exists() test: a CPU that has no "online"
\* file is written like any other.
ApplyToCpu_NoExistsCheck(id, target) ==
    IF id = 0
    THEN /\ execTodo' = Tail(execTodo)
         /\ mgrPc' = IF Tail(execTodo) = << >> THEN "sleep" ELSE "exec"
         /\ UNCHANGED << cpus, hwOnline, rejected >>
    ELSE \E ok \in WriteOutcomes :
           IF ok
           THEN /\ hwOnline' = [hwOnline EXCEPT ![id] = target]
                /\ cpus' = IF id \in DOMAIN cpus
                           THEN [cpus EXCEPT ![id].online = target]
                           ELSE cpus
                /\ execTodo' = Tail(execTodo)
                /\ mgrPc' = IF Tail(execTodo) = << >> THEN "sleep"
                            ELSE "exec"
                /\ UNCHANGED rejected
           ELSE /\ rejected' = rejected \cup {id}
                /\ execTodo' = Tail(execTodo)
                /\ mgrPc' = "sleep"
                /\ UNCHANGED << cpus, hwOnline >>

\* One iteration of the for loop of offline_cpu_group / online_cpu_group.
ApplyToCpu(id, target) ==
    IF id = 0 \/ id \notin hwControl
    THEN \* `continue` for CPU 0; no "online" file: nothing is written
         /\ execTodo' = Tail(execTodo)
         /\ mgrPc' = IF Tail(execTodo) = << >> THEN "sleep" ELSE "exec"
         /\ UNCHANGED << cpus, hwOnline, rejected >>
    ELSE \E ok \in WriteOutcomes :
           IF ok
           THEN /\ hwOnline' = [hwOnline EXCEPT ![id] = target]
                /\ cpus' = IF id \in DOMAIN cpus
                           THEN [cpus EXCEPT ![id].online = target]
                           ELSE cpus
                /\ execTodo' = Tail(execTodo)
                /\ mgrPc' = IF Tail(execTodo) = << >> THEN "sleep"
                            ELSE "exec"
                /\ UNCHANGED rejected
           ELSE \* fs::write(..).await? returns the error to cpu_manager,
                \* which drops it (let _ =)
                /\ rejected' = rejected \cup {id}
                /\ execTodo' = Tail(execTodo)
                /\ mgrPc' = "sleep"
                /\ UNCHANGED << cpus, hwOnline >>

offline_cpu_group ==
    /\ ~stopped
    /\ mgrPc = "exec"
    /\ decision = "offline"
    /\ ApplyToCpu(Head(execTodo), FALSE)
    /\ UNCHANGED << lastUpdateIdle, hwVars, sigVars, mgrTodo, execGroup, execPre, decision,
                    stopped >>

online_cpu_group ==
    /\ ~stopped
    /\ mgrPc = "exec"
    /\ decision = "online"
    /\ ApplyToCpu(Head(execTodo), TRUE)
    /\ UNCHANGED << lastUpdateIdle, hwVars, sigVars, mgrTodo, execGroup, execPre, decision,
                    stopped >>

\* tokio::time::sleep(1 s) at the end of the loop body is over.
MgrWake ==
    /\ ~stopped
    /\ mgrPc = "sleep"
    /\ mgrPc' = "top"
    /\ execGroup' = << >>
    /\ execTodo' = << >>
    /\ execPre' = {}
    /\ rejected' = {}
    /\ decision' = "none"
    /\ UNCHANGED << cpus, lastUpdateIdle, hwVars, hwOnline, sigVars, mgrTodo, stopped >>

---------------------------------------------------------------------------
(* online_all_cpus, as called by cpu_manager and by signal_handler *)

\* The ids the directory walk of online_all_cpus visits and does not skip.
\* read_dir gives the entries in no specified order; the walk is taken in
\* ascending order of id.
OnlineAllIds == NonBoot

NextId(todo) == Min(todo)

\* The walk's step for one id: "1" is written when the CPU has an "online"
\* file; ok tells whether that write succeeds.
OnlineAllWrites(id, ok) ==
    IF id \in hwControl /\ ok THEN [hwOnline EXCEPT ![id] = TRUE]
    ELSE hwOnline

\* fs::write(..).await? ends the walk with the error.
OnlineAllFails(id, ok) == id \in hwControl /\ ~ok

\* cpu_manager sees the watch value true at the top of its loop.
MgrObservePause ==
    /\ ~stopped
    /\ mgrPc = "top"
    /\ rx
    /\ mgrTodo' = OnlineAllIds
    /\ mgrPc' = IF OnlineAllIds = {} THEN "paused" ELSE "onlining"
    /\ UNCHANGED << cpus, lastUpdateIdle, hwVars, hwOnline, sigVars, execVars, stopped >>

\* One step of online_all_cpus().await? in cpu_manager. An error ends the
\* task and leaves the rest of the walk unvisited; after the last id the task enters the 100 ms wait loop.
MgrOnlineAll ==
    /\ ~stopped
    /\ mgrPc = "onlining"
    /\ \E id \in { NextId(mgrTodo) }, ok \in WriteOutcomes :
         /\ hwOnline' = OnlineAllWrites(id, ok)
         /\ IF OnlineAllFails(id, ok)
            THEN /\ mgrPc' = "online_all_error"
                 /\ mgrTodo' = mgrTodo \ {id}
            ELSE /\ mgrTodo' = mgrTodo \ {id}
                 /\ mgrPc' = IF mgrTodo \ {id} = {} THEN "paused"
                             ELSE "onlining"
    /\ UNCHANGED << cpus, lastUpdateIdle, hwVars, sigVars, execVars, stopped >>

---------------------------------------------------------------------------
(* signal_handler and main *)

\* SIGHUP: toggle the flag and send it. The send fails, and unwrap panics,
\* when cpu_manager has ended and dropped the receiver.
SigHup ==
    /\ ~stopped
    /\ sigPc = "wait"
    /\ flag' = ~flag
    /\ IF MgrEnded
       THEN /\ sigPc' = "send_panic"
            /\ UNCHANGED rx
       ELSE /\ rx' = ~flag
            /\ UNCHANGED sigPc
    /\ UNCHANGED << cpus, lastUpdateIdle, hwVars, hwOnline, mgrPc, mgrTodo, execVars,
                    sigTodo, stopped >>

\* SIGINT or SIGTERM: the handler starts online_all_cpus.
SigShutdown ==
    /\ ~stopped
    /\ sigPc = "wait"
    /\ sigTodo' = OnlineAllIds
    /\ sigPc' = IF OnlineAllIds = {} THEN "done" ELSE "onlining"
    /\ UNCHANGED << cpus, lastUpdateIdle, hwVars, hwOnline, rx, flag, mgrPc, mgrTodo,
                    execVars, stopped >>

\* One step of online_all_cpus().await.unwrap() in signal_handler. An error
\* panics the task and leaves the rest of the walk unvisited; after the last id the handler breaks out of its loop.
SigOnlineAll ==
    /\ ~stopped
    /\ sigPc = "onlining"
    /\ \E id \in { NextId(sigTodo) }, ok \in WriteOutcomes :
         /\ hwOnline' = OnlineAllWrites(id, ok)
         /\ IF OnlineAllFails(id, ok)
            THEN /\ sigPc' = "online_all_panic"
                 /\ sigTodo' = sigTodo \ {id}
            ELSE /\ sigTodo' = sigTodo \ {id}
                 /\ sigPc' = IF sigTodo \ {id} = {} THEN "done"
                             ELSE "onlining"
    /\ UNCHANGED << cpus, lastUpdateIdle, hwVars, rx, flag, mgrPc, mgrTodo, execVars,
                    stopped >>

\* tokio::select! in main: one of the two tasks has ended, main returns and
\* the runtime is dropped.
MainExit ==
    /\ ~stopped
    /\ MgrEnded \/ SigEnded
    /\ stopped' = TRUE
    /\ UNCHANGED << cpus, lastUpdateIdle, hwVars, hwOnline, sigVars, mgrPc, mgrTodo,
                    execVars >>

---------------------------------------------------------------------------

Next ==
    \/ MgrSample
    \/ MgrDecide
    \/ MgrSampleFails
    \/ offline_cpu_group
    \/ online_cpu_group
    \/ MgrWake
    \/ MgrObservePause
    \/ MgrOnlineAll
    \/ SigHup
    \/ SigShutdown
    \/ SigOnlineAll
    \/ MainExit

Spec == Init /\ [][Next]_vars

\* The program while no signal arrives and every cpuidle counter is
\* readable: the manager's sample / decide / execute cycle alone.
NextEngine ==
    \/ MgrSample
    \/ MgrDecide
    \/ offline_cpu_group
    \/ online_cpu_group
    \/ MgrWake

SpecEngine == Init /\ [][NextEngine]_vars

---------------------------------------------------------------------------
(* The decision rule on its own: the initial states are the states right   *)
(* after a sample, with the utilizations drawn around the two thresholds.  *)

\* Utilizations in 1/C0Scale percent: 49.9, 50.0, 85.0 and 85.1.
C0Samples == { 499, 500, 850, 851 }

InitSampled ==
    \E c0 \in [Cpus -> C0Samples], on \in SUBSET NonBoot :
        /\ hwControl = Cpus
        /\ hwOnline = [ c \in Cpus |-> c = 0 \/ c \in on ]
        /\ cpus = [ c \in Cpus |->
                      [ thread_siblings      |-> << c >>,
                        c0_percentage        |-> c0[c],
                        online               |-> c = 0 \/ c \in on,
                        last_total_idle_time |-> 0 ] ]

\* Threshold pairs with lower < upper: the defaults, and two pairs that put
\* a threshold next to the drawn utilizations from the other side.
ArgsSamples ==
    { DefaultArgs,
      [ upper_threshold |-> LowerThreshold,
        lower_threshold |-> LowerThreshold - 1 ],
      [ upper_threshold |-> UpperThreshold + 1,
        lower_threshold |-> UpperThreshold ] }

InitDecide ==
    /\ InitSampled
    /\ hwIdleTimes = IdleTimes
    /\ hwIntervals = { IntervalMicros }
    /\ lastUpdateIdle = 0
    /\ args \in ArgsSamples
    /\ InitTasks("sampled")

NextDecide ==
    \/ MgrDecide
    \/ offline_cpu_group
    \/ online_cpu_group
    \/ MgrWake

SpecDecide == InitDecide /\ [][NextDecide]_vars

---------------------------------------------------------------------------
(* The load estimator on counters that go down as well as up, and on short *)
(* and long intervals: the manager's cycle started in the middle of a run. *)

\* Cumulative idle times, in microseconds, a counter shows.
CounterSamples == { 0, 700, 1000 }

\* Times, in microseconds, between two samples.
ElapsedSamples == { 1, 100, 1000 }

\* Every CPU was last sampled when its counter showed 1000.
InitEstimator ==
    /\ \E on \in SUBSET NonBoot :
         /\ hwControl = Cpus
         /\ hwOnline = [ c \in Cpus |-> c = 0 \/ c \in on ]
         /\ cpus = [ c \in Cpus |->
                       [ thread_siblings      |-> << c >>,
                         c0_percentage        |-> 0,
                         online               |-> c = 0 \/ c \in on,
                         last_total_idle_time |-> 1000 ] ]
    /\ hwIdleTimes = CounterSamples
    /\ hwIntervals = ElapsedSamples
    /\ lastUpdateIdle = 1000
    /\ args = DefaultArgs
    /\ InitTasks("top")

SpecEstimator == InitEstimator /\ [][NextEngine]_vars

---------------------------------------------------------------------------
(* main from its first line: online_all_cpus, then SystemTopology::new,   *)
(* then the two tasks. No task runs before the spawn, so each of the two   *)
(* calls is one step.                                                      *)

\* The sets of ids read_dir can yield: a machine with n CPUs has the
\* directories cpu0 .. cpu(n-1); n = 0 is a directory without any cpuN entry.
Machines == { 0..(n - 1) : n \in 0..(MaxCpu + 1) }

\* The ids the walk of online_all_cpus wrote "1" to when it ended: all of S
\* when every write succeeded, else the ids before the first rejected one.
WalkPrefixes(S) == { { c \in S : c < k } : k \in S } \cup { S }

\* Any hardware state: each CPU has an "online" file or not, and each CPU
\* that has one is online or offline. A CPU without the file is online.
InitStartup ==
    /\ \E control \in SUBSET Cpus, on \in SUBSET Cpus :
         /\ on \subseteq control
         /\ hwControl = control
         /\ hwOnline = [ c \in Cpus |-> c \notin control \/ c \in on ]
    /\ hwIdleTimes = IdleTimes
    /\ hwIntervals = { IntervalMicros }
    /\ lastUpdateIdle = 0
    /\ args = DefaultArgs
    /\ cpus = << >>
    /\ mainPc = "online_all"
    /\ rx = FALSE
    /\ flag = FALSE
    /\ mgrPc = "unspawned"
    /\ mgrTodo = {}
    /\ execGroup = << >>
    /\ execTodo = << >>
    /\ execPre = {}
    /\ rejected = {}
    /\ decision = "none"
    /\ sigPc = "unspawned"
    /\ sigTodo = {}
    /\ stopped = FALSE

taskVars == << rx, flag, mgrPc, mgrTodo, execVars, sigPc, sigTodo >>

\* online_all_cpus().await? in main. read_dir or a write may fail: main
\* returns the error and the process exits.
MainOnlineAll ==
    /\ ~stopped
    /\ mainPc = "online_all"
    /\ \E readable \in BOOLEAN :
         IF readable
         THEN \E written \in WalkPrefixes(hwControl \ {0}) :
                /\ hwOnline' = [ c \in Cpus |-> hwOnline[c] \/ c \in written ]
                /\ IF written = hwControl \ {0}
                   THEN mainPc' = "discover" /\ UNCHANGED stopped
                   ELSE mainPc' = "error" /\ stopped' = TRUE
         ELSE /\ mainPc' = "error"
              /\ stopped' = TRUE
              /\ UNCHANGED hwOnline
    /\ UNCHANGED << cpus, lastUpdateIdle, hwControl, hwIdleTimes, hwIntervals, args,
                    taskVars >>

\* SystemTopology::new over the entries E, with the core map g and the
\* sibling file format fmt; readFail are the "online" files whose read fails.
DiscoveredOn(E, g, fmt, readFail) ==
    [ c \in E |->
        process_cpu(c, SiblingFile(fmt, CoreOf(g, c) \cap E),
                    c \in hwControl, c \notin readFail, hwOnline[c]) ]

\* SystemTopology::new().await? in main, print_summary, the channel and the
\* two spawns. read_dir (or next_entry) may fail: main returns the error.
\* Whatever the walk collects, an empty map included, is returned as Ok.
MainDiscover ==
    /\ ~stopped
    /\ mainPc = "discover"
    /\ \E readable \in BOOLEAN :
         IF readable
         THEN /\ \E E \in Machines, g \in CoreMaps, fmt \in SiblingFormats,
                    readFail \in SUBSET hwControl :
                  /\ hwControl \subseteq E
                  /\ Cardinality((E \ hwControl) \ {0})
                       + Cardinality(readFail)
                       + (IF fmt = "comma" THEN 0 ELSE 1) <= MaxQuirks
                  /\ cpus' = DiscoveredOn(E, g, fmt, readFail)
              /\ lastUpdateIdle' \in hwIdleTimes
              /\ mainPc' = "select"
              /\ mgrPc' = "top"
              /\ sigPc' = "wait"
              /\ UNCHANGED stopped
         ELSE /\ mainPc' = "error"
              /\ stopped' = TRUE
              /\ UNCHANGED << cpus, lastUpdateIdle, mgrPc, sigPc >>
    /\ UNCHANGED << hwControl, hwOnline, hwIdleTimes, hwIntervals, args,
                    rx, flag, mgrTodo, execVars, sigTodo >>

\* main, and then the manager's cycle while no signal arrives.
NextStartup ==
    \/ MainOnlineAll
    \/ MainDiscover
    \/ MgrSample
    \/ MgrDecide
    \/ offline_cpu_group
    \/ online_cpu_group
    \/ MgrWake

SpecStartup == InitStartup /\ [][NextStartup]_vars

---------------------------------------------------------------------------
(* The manager loop under a sustained load. cpu_manager is a spawned tokio
   task whose only await points are the counter reads, the control-file
   writes and the one-second sleep: as long as the task is not aborted the
   runtime resumes it after each of them, which is weak fairness of its
   steps. *)

\* --lower-threshold is a u8 that main never checks against 100: with 101
\* the average (at most 100) is below the lower threshold in every cycle,
\* whatever the idle counters show.
LowLoadArgs == [ upper_threshold |-> 102, lower_threshold |-> 101 ]

InitLowLoad ==
    /\ InitHardware
    /\ hwIdleTimes = IdleTimes
    /\ hwIntervals = { IntervalMicros }
    /\ lastUpdateIdle \in IdleTimes
    /\ args = LowLoadArgs
    /\ InitTasks("top")

\* The loop body when every cycle takes the `avg_c0 < lower` branch.
NextLowLoad ==
    \/ MgrSample
    \/ MgrDecide
    \/ offline_cpu_group
    \/ MgrWake

SpecLowLoad == InitLowLoad /\ [][NextLowLoad]_vars /\ WF_vars(NextLowLoad)

\* The manager loop of SpecEngine, resumed after every await.
SpecEngineFair == Init /\ [][NextEngine]_vars /\ WF_vars(NextEngine)

---------------------------------------------------------------------------
(* Properties *)

InTransition == mgrPc \in { "exec", "sleep" } /\ decision \in { "online", "offline" }
TransitionDone == mgrPc = "sleep" /\ decision \in { "online", "offline" }

WentOffline == execPre \ OnlineIds(cpus)
WentOnline  == OnlineIds(cpus) \ execPre
Changed     == WentOffline \cup WentOnline

SiblingSet(c) == Range(cpus[c].thread_siblings)

\* C1: in every reachable state CPU 0 is online in the in-memory topology,
\* whatever its "online" file showed at discovery.
C1_BootCpuOnline == cpus[0].online

\* C2 as stated: when the executor has gone through the group of a cycle
\* (sibling lists symmetric and self-including, CPU 0 online, no write
\* rejected), the CPUs whose in-memory flag changed are exactly the selected
\* group.
C2_ChangedIsSelectedGroup ==
    (TransitionDone /\ SymmetricSiblings(cpus) /\ 0 \in execPre
                    /\ rejected = {})
        => Changed = Range(execGroup)

\* C2 amended: the CPUs whose flag changed are exactly the members of the
\* selected group that the executor visited before the first rejected write,
\* CPU 0 and the members without an "online" control left out; they all
\* moved in the direction of the decision.
C2_ChangedIsWrittenPart ==
    InTransition =>
        LET visited == Range(execGroup) \ (Range(execTodo) \cup rejected)
        IN /\ Changed = (visited \ {0}) \cap hwControl
           /\ decision = "offline" => WentOnline = {}
           /\ decision = "online" => WentOffline = {}

\* A group with CPU 0 in it was handed to the executor, every write was
\* accepted, and the other members moved.
C2_Witness ==
    /\ TransitionDone
    /\ SymmetricSiblings(cpus)
    /\ rejected = {}
    /\ 0 \in execPre
    /\ 0 \in Range(execGroup)
    /\ Changed # {}
    /\ Changed # Range(execGroup)

\* C3 as stated: with symmetric, self-including sibling lists (and CPU 0
\* online), a low-load cycle leaves every sibling of CPU 0 that was online
\* still online, and selects no group once only CPU 0's own group is online.
C3_BootGroupKeptOnline ==
    (InTransition /\ decision = "offline" /\ SymmetricSiblings(cpus)
                  /\ 0 \in execPre)
        => /\ \A s \in SiblingSet(0) : s \in execPre => cpus[s].online
           /\ ~(execPre \subseteq SiblingSet(0))

\* The topology of the scenario: cores {0,1} and {2,3}.
PairScenario ==
    /\ DOMAIN cpus = { 0, 1, 2, 3 }
    /\ SiblingSet(0) = { 0, 1 } /\ SiblingSet(1) = { 0, 1 }
    /\ SiblingSet(2) = { 2, 3 } /\ SiblingSet(3) = { 2, 3 }

\* C3 amended: offline-selection returns none exactly when at most one
\* non-boot CPU is online, and an offline transition never changes CPU 0's
\* flag; in the scenario {0,1},{2,3} the group {2,3} goes first and CPU 1 is
\* never in an offline group. (A sibling of CPU 0 that has the highest id of
\* two or more online non-boot CPUs is offlined like any other.)
C3_OfflineFloor ==
    /\ (mgrPc \in { "exec", "sleep" } /\ decision = "at_minimum")
          => Cardinality(execPre \ {0}) <= 1
    /\ (InTransition /\ decision = "offline")
          => /\ Cardinality(execPre \ {0}) >= 2
             /\ (0 \in execPre <=> cpus[0].online)
    /\ (InTransition /\ decision = "offline" /\ PairScenario)
          => /\ 1 \notin Range(execGroup)
             /\ execPre = { 0, 1, 2, 3 } => execGroup = << 2, 3 >>

\* In the scenario {0,1},{2,3}, after {2,3} went offline a low-load cycle
\* selects nothing and CPUs 0 and 1 are online.
C3_Witness ==
    /\ PairScenario
    /\ hwControl = DOMAIN cpus
    /\ mgrPc = "sleep"
    /\ decision = "at_minimum"
    /\ OnlineIds(cpus) = { 0, 1 }

\* The sum of the utilizations of the CPUs that were online at the decision
\* and their number; the aggregate is their quotient.
AggregateSum   == Sum([ c \in DOMAIN cpus |-> cpus[c].c0_percentage ], execPre)
AggregateCount == Cardinality(execPre)

OnlineSelectionAttempted  == decision \in { "online", "at_maximum" }
OfflineSelectionAttempted == decision \in { "offline", "at_minimum" }

\* C4: in a cycle online-selection is attempted exactly when the aggregate is
\* above upper, offline-selection exactly when it is below lower, and
\* nothing is done otherwise; with lower = 50 and upper = 85 an aggregate of
\* exactly 50.0 or 85.0 gives no action, 49.9 offline-selection and 85.1
\* online-selection.
C4_StrictThresholds ==
    (mgrPc \in { "exec", "sleep" } /\ AggregateCount > 0) =>
        /\ OnlineSelectionAttempted
              <=> AggregateSum > args.upper_threshold * C0Scale * AggregateCount
        /\ OfflineSelectionAttempted
              <=> AggregateSum < args.lower_threshold * C0Scale * AggregateCount
        /\ decision = "optimal"
              <=> /\ AggregateSum >= args.lower_threshold * C0Scale * AggregateCount
                  /\ AggregateSum <= args.upper_threshold * C0Scale * AggregateCount
        /\ (args.lower_threshold = 50 /\ args.upper_threshold = 85) =>
              /\ (\A c \in execPre : cpus[c].c0_percentage \in { 500, 850 })
                    => decision = "optimal"
              /\ (\A c \in execPre : cpus[c].c0_percentage = 499)
                    => OfflineSelectionAttempted
              /\ (\A c \in execPre : cpus[c].c0_percentage = 851)
                    => OnlineSelectionAttempted

\* A cycle decided on an aggregate of exactly 85.0 over two or more CPUs.
C4_Witness ==
    /\ args = DefaultArgs
    /\ mgrPc = "sleep"
    /\ decision = "optimal"
    /\ AggregateCount >= 2
    /\ \A c \in execPre : cpus[c].c0_percentage = 850

\* C5: with CPU 0 recorded online, when the executor is through with a group
\* and one write was rejected, the rest of the group was still visited, and
\* every other member with an "online" control has the new state.
C5_FailureDoesNotAbortBatch ==
    (TransitionDone /\ rejected # {} /\ cpus[0].online) =>
        /\ execTodo = << >>
        /\ \A id \in (Range(execGroup) \cap hwControl) \ ({0} \cup rejected) :
              cpus[id].online = (decision = "online")

\* C6: a counter of an online CPU that cannot be read does not end the
\* control loop.
C6_SampleFailureKeepsLoop == mgrPc # "sample_error"

\* C7: with CPU 0 recorded online, when the process has stopped after a
\* shutdown signal whose online_all_cpus completed, every non-boot CPU with
\* an "online" control is online in hardware.
C7_ShutdownLeavesAllOnline ==
    (stopped /\ sigPc = "done" /\ cpus[0].online) =>
        \A c \in NonBoot \cap hwControl : hwOnline[c]

\* The manager has seen the pause flag set and has not yet seen it cleared.
InPause == mgrPc \in { "onlining", "paused" }

\* C8: from the moment the manager sees the pause flag until it sees it
\* cleared, it takes no sample, selects nothing and moves no group; it
\* leaves that stretch only with the flag cleared, to take the next sample;
\* and while it is there a further SIGHUP is accepted.
C8_PauseSuspendsUntilResume ==
    /\ [][ InPause =>
             /\ (InPause' => UNCHANGED << cpus, execVars >>)
             /\ (~InPause' => (~rx /\ mgrPc' \in { "sampled",
                                                     "sample_error" })) ]_vars
    /\ []( (InPause /\ sigPc = "wait" /\ ~stopped) => ENABLED SigHup )

\* C9: within a cycle the CPUs whose flag changed all went the same way and
\* all belong to one CPU's sibling list; outside the executor no flag
\* changes.
C9_OneGroupOneDirection ==
    /\ []( mgrPc \in { "exec", "sleep" } =>
             /\ WentOffline = {} \/ WentOnline = {}
             /\ \E c \in DOMAIN cpus : Changed \subseteq SiblingSet(c) )
    /\ [][ mgrPc # "exec" => OnlineIds(cpus') = OnlineIds(cpus) ]_vars

\* A cycle moved a whole sibling pair.
C9_Witness ==
    /\ mgrPc = "sleep"
    /\ Cardinality(Changed) >= 2
    /\ \E c \in DOMAIN cpus : Changed = SiblingSet(c)

\* C10: a rejected write inside online_all_cpus stops neither the walk nor
\* the caller: the manager does not end, the signal handler does not panic,
\* and when the call is over no id is left unvisited.
C10_OnlineAllIgnoresFailures ==
    /\ mgrPc # "online_all_error"
    /\ sigPc # "online_all_panic"
    /\ mgrPc = "paused" => mgrTodo = {}
    /\ sigPc = "done" => sigTodo = {}

\* C11: when online_all_cpus has completed with every write succeeding, the
\* discovery that follows it records every CPU, CPU 0 included, as online.
C11_OnlineAllThenDiscoveryAllOnline ==
    [][ (mainPc = "discover" /\ mainPc' = "select")
          => \A c \in DOMAIN cpus' : cpus'[c].online ]_vars

\* C13: discovery does not hand an empty topology to the tasks: once the
\* manager is spawned the topology has at least one CPU.
C13_DiscoveryRejectsNoCpus ==
    mgrPc # "unspawned" => DOMAIN cpus # {}

\* The CPUs that were offline in memory when the group was selected.
OfflinePre == DOMAIN cpus \ execPre

\* C12: offline-selection never returns a CPU that is offline, and as long
\* as no online transition runs the set of online CPUs only shrinks (so the
\* online count never goes up).
C12_OfflineRunMonotone ==
    /\ []( (InTransition /\ decision = "offline")
              => Range(execGroup) \subseteq execPre )
    /\ [][ ~(mgrPc = "exec" /\ decision = "online")
             => /\ OnlineIds(cpus') \subseteq OnlineIds(cpus)
                /\ online_count(cpus') <= online_count(cpus) ]_vars

\* A second offline transition of a run: a CPU that was sampled earlier was
\* already offline at the selection, and the transition took more offline.
C12_Witness ==
    /\ TransitionDone
    /\ decision = "offline"
    /\ 0 \in execPre
    /\ \E c \in OfflinePre : cpus[c].c0_percentage # 0
    /\ WentOffline # {}

\* C14: offline-selection returns none when at most one non-boot CPU is
\* online; otherwise it returns the sibling list of the online non-boot CPU
\* with the highest id, cut down to the CPUs that are online. For cores
\* {0,1},{2,3}, all online, that is [2,3].
C14_OfflineSelection ==
    mgrPc \in { "exec", "sleep" } =>
        LET candidates == execPre \ {0}
            keep(id)   == id \in execPre
        IN /\ decision = "at_minimum" => Cardinality(candidates) <= 1
           /\ decision = "offline" =>
                /\ Cardinality(candidates) > 1
                /\ execGroup =
                     SelectSeq(cpus[Max(candidates)].thread_siblings, keep)
                /\ (PairScenario /\ execPre = { 0, 1, 2, 3 })
                      => execGroup = << 2, 3 >>

\* Cores {0,1},{2,3}, all online: [2,3] is handed to the executor.
C14_Witness ==
    /\ PairScenario
    /\ mgrPc = "exec"
    /\ decision = "offline"
    /\ execPre = { 0, 1, 2, 3 }
    /\ execGroup = << 2, 3 >>
    /\ execTodo = execGroup

\* C15: online-selection returns none when no non-boot CPU is offline;
\* otherwise it returns the sibling list of the offline non-boot CPU with
\* the lowest id, cut down to the CPUs that are offline. With symmetric,
\* self-including lists the lowest offline CPU is in the group, so groups
\* come online in ascending order of their lowest offline id.
C15_OnlineSelection ==
    mgrPc \in { "exec", "sleep" } =>
        LET candidates == OfflinePre \ {0}
            keep(id)   == id \in OfflinePre
        IN /\ decision = "at_maximum" => candidates = {}
           /\ decision = "online" =>
                /\ candidates # {}
                /\ execGroup =
                     SelectSeq(cpus[Min(candidates)].thread_siblings, keep)
                /\ SymmetricSiblings(cpus)
                      => /\ Min(candidates) \in Range(execGroup)
                         /\ \A c \in candidates \ Range(execGroup) :
                               c > Min(candidates)

\* Two groups were offline; the one with the lower id came online and the
\* other is still offline.
C15_Witness ==
    /\ mgrPc = "sleep"
    /\ decision = "online"
    /\ SymmetricSiblings(cpus)
    /\ 0 \in execPre
    /\ rejected = {}
    /\ WentOnline # {}
    /\ \E c \in OfflineIds(cpus) \ {0} : \A d \in WentOnline : d < c

\* C16: in every step of the executor (the step that takes an id off the
\* group) on a non-boot id: the flag of that id changes only together with
\* an accepted write of the new state; after a rejected write no flag and
\* no hardware state has changed; for an id without an "online" file
\* nothing is written, no flag changes, and the loop goes on to the next
\* id. No other CPU's record is touched.
C16_FlagFollowsWrite ==
    [][ (mgrPc = "exec" /\ execTodo' # execTodo) =>
          LET id     == Head(execTodo)
              target == (decision = "online")
          IN /\ \A c \in DOMAIN cpus \ {id} : cpus'[c] = cpus[c]
             /\ (id # 0 /\ id \in hwControl) =>
                  \/ /\ rejected' = rejected
                     /\ hwOnline' = [hwOnline EXCEPT ![id] = target]
                     /\ cpus'[id].online = target
                  \/ /\ rejected' = rejected \cup {id}
                     /\ hwOnline' = hwOnline
                     /\ cpus' = cpus
             /\ (id # 0 /\ id \notin hwControl) =>
                  /\ rejected' = rejected
                  /\ hwOnline' = hwOnline
                  /\ cpus' = cpus
                  /\ execTodo' = Tail(execTodo)
                  /\ (Tail(execTodo) # << >> => mgrPc' = "exec") ]_vars

\* A group whose first write was accepted and whose next write was
\* rejected: the rejected CPU's flag is as it was at the selection.
C16_Witness ==
    /\ TransitionDone
    /\ 0 \in execPre
    /\ Changed # {}
    /\ rejected # {}
    /\ \A id \in rejected : cpus[id].online = (id \in execPre)

\* C17: in every sample of an online CPU, a counter reading below the
\* stored baseline (1000 then 700 among them) gives the utilization 100,
\* and every stored utilization lies in [0, 100].
C17_DeltaSaturates ==
    /\ [][ (mgrPc \in { "top", "paused" } /\ mgrPc' = "sampled") =>
             \A c \in OnlineIds(cpus) :
                /\ cpus'[c].last_total_idle_time < cpus[c].last_total_idle_time
                     => cpus'[c].c0_percentage = 100 * C0Scale
                /\ (/\ cpus[c].last_total_idle_time = 1000
                    /\ cpus'[c].last_total_idle_time = 700)
                     => cpus'[c].c0_percentage = 100 * C0Scale ]_vars
    /\ []( \A c \in DOMAIN cpus :
              cpus[c].c0_percentage \in 0..(100 * C0Scale) )

\* An online CPU whose baseline is now 700 and whose utilization is 100.
C17_Witness ==
    /\ mgrPc = "sampled"
    /\ \E c \in OnlineIds(cpus) :
         /\ cpus[c].last_total_idle_time = 700
         /\ cpus[c].c0_percentage = 100 * C0Scale

\* C18: outside the executor no online flag changes; a sample leaves the
\* whole record of every offline CPU as it was; the selection changes
\* nothing; and the decision is taken on the utilizations of the CPUs that
\* are online alone.
C18_OnlyExecutorFlipsOnline ==
    /\ [][ mgrPc # "exec"
             => /\ DOMAIN cpus' = DOMAIN cpus
                /\ \A c \in DOMAIN cpus : cpus'[c].online = cpus[c].online ]_vars
    /\ [][ (mgrPc \in { "top", "paused" })
             => \A c \in OfflineIds(cpus) : cpus'[c] = cpus[c] ]_vars
    /\ [][ mgrPc = "sampled" => cpus' = cpus ]_vars
    /\ []( (mgrPc \in { "exec", "sleep" } /\ AggregateCount > 0) =>
             /\ OnlineSelectionAttempted
                  <=> AggregateSum
                        > args.upper_threshold * C0Scale * AggregateCount
             /\ OfflineSelectionAttempted
                  <=> AggregateSum
                        < args.lower_threshold * C0Scale * AggregateCount )

\* A sample was taken while a CPU that had been sampled before was offline:
\* it kept a baseline the online CPUs no longer have.
C18_Witness ==
    /\ mgrPc = "sampled"
    /\ 0 \in OnlineIds(cpus)
    /\ \E c \in OfflineIds(cpus) :
         /\ cpus[c].c0_percentage # 0
         /\ \A d \in OnlineIds(cpus) :
              /\ cpus[d].last_total_idle_time # cpus[c].last_total_idle_time
              /\ cpus[d].c0_percentage # cpus[c].c0_percentage

\* C19: after discovery every CPU is in its own sibling list and listing is
\* mutual, whatever reading thread_siblings_list gave.
C19_SiblingListsSymmetric == SymmetricSiblings(cpus)

\* C20: every step that changes the hardware online state of a CPU (the
\* walk of a shutdown left aside) keeps the in-memory flags equal to the
\* hardware: if they agreed before the step they agree after it.
C20_MemoryTracksHardware ==
    [][ (sigPc # "onlining"
           /\ \A c \in DOMAIN cpus : cpus[c].online = hwOnline[c])
          => \A c \in DOMAIN cpus : cpus'[c].online = hwOnline'[c] ]_vars

\* C21: in every sample, the baseline subtracted for an online CPU is what
\* its idle counter showed at the previous update instant (discovery for
\* the first sample), and the sample stores the reading it has just taken
\* as the new baseline.
C21_BaselineIsPreviousReading ==
    [][ (mgrPc \in { "top", "paused" } /\ mgrPc' = "sampled") =>
          \A c \in OnlineIds(cpus) :
             /\ cpus[c].last_total_idle_time = lastUpdateIdle
             /\ cpus'[c].last_total_idle_time = lastUpdateIdle' ]_vars

\* The sibling lists are as the kernel reports them and CPU 0 was discovered
\* online: neither changes after discovery.
SoundTopology == cpus[0].online /\ SymmetricSiblings(cpus)

\* C22: under a load that is below the lower threshold in every cycle, and
\* with no write to a control file ever rejected, a cycle whose
\* offline-selection returned a group is eventually followed by a cycle in
\* which the number of CPUs recorded online went down.
C22_OfflineCycleLeadsToDecrease ==
    [](rejected = {}) =>
        ((SoundTopology /\ mgrPc = "exec" /\ decision = "offline")
            ~> (WentOffline # {}))

\* C22, its conclusion: under the same load the loop eventually reports
\* that it is at the minimum.
C22_ReachesMinimum ==
    (SoundTopology /\ [](rejected = {}))
        => <>(mgrPc = "sleep" /\ decision = "at_minimum")

\* The cycle that has decided took the `avg_c0 > upper` branch.
HighLoadCycle ==
    mgrPc \in { "exec", "sleep" } => decision \in { "online", "at_maximum" }

AtMaximum ==
    /\ OfflineIds(cpus) = {}
    /\ mgrPc # "exec"
    /\ mgrPc = "sleep" => decision = "at_maximum"

\* C23: if every cycle finds the average above the upper threshold and no
\* write is rejected, then from some cycle on every CPU of the topology is
\* recorded online and online-selection returns none.
C23_ConvergesToAllOnline ==
    [](HighLoadCycle /\ rejected = {}) => <>[]AtMaximum

====
